---- MODULE Spec2Model ----
(***************************************************************************)
(* WS2812B strip driven over SPI (src/unnamed/part_006: the step-through   *)
(* test; src/unnamed/part_007 lines 1-334: the interactive controller).   *)
(* One data bit is sent as three SPI bits; a frame is 9 bytes per LED      *)
(* followed by 100 bytes of reset padding.                                 *)
(*                                                                         *)
(* Specifications:                                                         *)
(*   SpecEnc  encode_byte applied to every byte value                      *)
(*   SpecApi  fill_black / set_pixel / show of the interactive controller  *)
(*            called with arbitrary arguments on an open session           *)
(*   Spec     main() of the interactive controller, with SIGINT and        *)
(*            failing system calls                                         *)
(*   SpecStep main() of the step-through test, with SIGINT                 *)
(*   SpecStep50  set_pixel / show / clear of the 50-LED step-through test  *)
(*            (src/unnamed/part_005) called on an open session             *)
(*   SpecKeys the command loop of the interactive controller started from  *)
(*            colours it reaches                                           *)
(*   SpecPoll the polling button monitor                                   *)
(*            (src/buttons/read_buttons_no_interrupt.c)                    *)
(*   SpecIrq  the interrupt-driven button monitors                         *)
(*            (src/buttons/read_buttons_lgpio_full.c, part_001, part_000)  *)
(*   SpecBuzzer  set_volume of the buzzer programs and main() of the       *)
(*            interactive buzzer (part_002, part_003, part_004,            *)
(*            src/buzzer/buzzer_interactive_single_pins.c)                 *)
(***************************************************************************)
EXTENDS Integers, Sequences, FiniteSets, TLC

\* ------------------------------------------------------------------ bounds
\* LED_COUNT is 186 in the source; the model runs a shorter strip.
LED_COUNT == 3
\* calls made by the harness of SpecApi
MaxOps == 3
\* keys read by the command loop of Spec
MaxCmds == 2
\* keys read by the command loop of SpecKeys
MaxKeys == 3
\* successful port reads of the polling button monitor of SpecPoll
MaxReads == 3
\* port reads and interrupts of the interrupt-driven monitor of SpecIrq
MaxIrqs == 3

\* --------------------------------------------------------- program constants
BITS_PER_PIXEL == 24
SPI_BITS_PER_LED_BIT == 3
RESET_PADDING == 100
COLOR_STEP == 16
INTENSITY_STEP == 20
\* the buzzer programs
MAX_VOLUME == 8
MIN_VOLUME == 0
FREQ_STEP == 50
MIN_FREQ == 100
MAX_FREQ == 2000

VARIABLES
    pc,             \* control point of main() (or of the harness)
    spi_fd,         \* int spi_fd: -1 or the descriptor open() returned
    fd_state,       \* the kernel's view of that descriptor: "none", "open", "closed"
    tx_buffer,      \* uint8_t *tx_buffer: "NULL" or "PTR"
    tx_buffer_len,  \* size_t tx_buffer_len
    heap,           \* bytes of the malloc'ed block, offsets 0 .. tx_buffer_len-1
    heap_state,     \* "none", "live", "freed"
    oob,            \* offsets outside the block that were written
    bus,            \* the last write(spi_fd, ...) issued: [n, frame, len, res, perror]
    frees,          \* number of free(tx_buffer) calls
    misuse,         \* uses of the block or the descriptor after their release
    handler,        \* TRUE while the SIGINT handler runs
    sig_installed,  \* signal(SIGINT, cleanup) was called
    current_led_index,
    current_color,
    saved_terminal_settings,  \* "zero" (static storage) or "orig" (tcgetattr)
    term,           \* settings of the terminal: "orig", "raw", "zero"
    atexit_reg,     \* atexit(restore_terminal_settings) was registered
    cmds,           \* keys read so far
    opened,         \* spi_init returned 0
    spi_init_ret,   \* what spi_init returned: "none" (not yet), "ok" (0), "failed" (-1)
    val, out,       \* SpecEnc: argument and result of encode_byte
    call,           \* SpecApi, SpecStep: the last call made, with the bytes before it
    trace,          \* SpecApi: the calls made since the session was opened
    step_i,         \* SpecStep: loop variable i of main
    lastState,      \* polling monitor: unsigned char lastState
    last_state,     \* interrupt monitor: unsigned char last_state[2]
    last_interrupt_time, \* interrupt monitor: long long last_interrupt_time
    now,            \* CLOCK_MONOTONIC in ms at the latest interrupt
    printed,        \* button numbers the latest loop turn or callback printed
    program,        \* which of the button or buzzer programs is running
    current_vol,    \* interactive buzzer: int current_vol
    current_freq,   \* interactive buzzer: int current_freq
    vbit,           \* single-pin buzzer: bool v3, v2, v1, v0 as vbit[3] .. vbit[0]
    gpio,           \* level last written to PIN_VOL_3 .. PIN_VOL_0, as gpio[3] .. gpio[0]
    aborted         \* an assert failed and abort() ended the process

vars == <<pc, spi_fd, fd_state, tx_buffer, tx_buffer_len, heap, heap_state, oob,
          bus, frees, misuse, handler, sig_installed, current_led_index,
          current_color, saved_terminal_settings, term, atexit_reg, cmds,
          opened, spi_init_ret, val, out, call, trace, step_i, lastState,
          last_state, last_interrupt_time, now, printed, program, current_vol,
          current_freq, vbit, gpio, aborted>>

\* ------------------------------------------------------------ C arithmetic
Byte == 0 .. 255

Shr(x, n) == x \div (2 ^ n)
\* x << n on a uint32_t: the bits shifted past bit 31 are dropped
Shl32(x, n) == (x % (2 ^ (32 - n))) * (2 ^ n)

RECURSIVE BitOr(_, _)
BitOr(a, b) ==
    IF a = 0 THEN b
    ELSE IF b = 0 THEN a
    ELSE (IF (a % 2 = 1) \/ (b % 2 = 1) THEN 1 ELSE 0)
         + 2 * BitOr(a \div 2, b \div 2)

\* ---------------------------------------------------------------- encoder
\* faulty variant: the two patterns exchanged
SymbolInverted(v, b) == IF Shr(v, b) % 2 = 1 THEN 4 ELSE 6
\* ((val >> b) & 1) ? 0b110 : 0b100
Symbol(v, b) == IF Shr(v, b) % 2 = 1 THEN 6 ELSE 4

\* faulty variant: the bits of val taken least significant first
RECURSIVE EncodeLoopLsbFirst(_, _, _)
EncodeLoopLsbFirst(v, b, p) ==
    IF b < 0 THEN p
    ELSE EncodeLoopLsbFirst(v, b - 1, BitOr(Shl32(p, 3), Symbol(v, 7 - b)))
\* for (int b = 7; b >= 0; b--) p = (p << 3) | symbol;
RECURSIVE EncodeLoop(_, _, _)
EncodeLoop(v, b, p) ==
    IF b < 0 THEN p
    ELSE EncodeLoop(v, b - 1, BitOr(Shl32(p, 3), Symbol(v, b)))

\* faulty variant: the three bytes stored in the opposite order
PackLsbFirst(p) == << p % 256, Shr(p, 8) % 256, Shr(p, 16) % 256 >>
\* ptr[0] = (p >> 16) & 0xFF; ptr[1] = (p >> 8) & 0xFF; ptr[2] = p & 0xFF;
Pack(p) == << Shr(p, 16) % 256, Shr(p, 8) % 256, p % 256 >>

encode_byte(v) == Pack(EncodeLoop(v, 7, 0))

\* ------------------------------------------------------------ frame buffer
\* size_t data_len = (LED_COUNT * BITS_PER_PIXEL * SPI_BITS_PER_LED_BIT) / 8;
DataLen == (LED_COUNT * BITS_PER_PIXEL * SPI_BITS_PER_LED_BIT) \div 8
\* tx_buffer_len = data_len + 100;
FrameLen == DataLen + RESET_PADDING

\* what malloc may hand out: the block is not initialised
GarbageFills == {0, 170}
Uninit(len, g) == [o \in 0 .. len - 1 |-> g]

\* A memory image: the bytes of the block and the offsets written outside it.
Mem(bytes, outside) == [bytes |-> bytes, oob |-> outside]

\* tx_buffer[off] = b
Store(m, off, b) ==
    IF off \in DOMAIN m.bytes
    THEN [m EXCEPT !.bytes[off] = b]
    ELSE [m EXCEPT !.oob = @ \cup {off}]

\* three consecutive bytes (what encode_byte writes through ptr)
Store3(m, off, b3) ==
    Store(Store(Store(m, off, b3[1]), off + 1, b3[2]), off + 2, b3[3])

\* memset(tx_buffer + off, b, n): n bytes from off on, inside the block or not
Memset(m, off, b, n) ==
    LET range == off .. (off + n - 1)
    IN  [bytes |-> [o \in DOMAIN m.bytes |-> IF o \in range THEN b ELSE m.bytes[o]],
         oob |-> m.oob \cup (range \ DOMAIN m.bytes)]

\* faulty variant: the last byte of the pattern mistyped
black_pattern_typo == <<146, 73, 37>>
\* const uint8_t black_pattern[3] = {0x92, 0x49, 0x24};
black_pattern == <<146, 73, 36>>

\* for (int i = 0; i < LED_COUNT * 3; i++) tx_buffer[i*3 + 0..2] = black_pattern[0..2];
RECURSIVE FillPattern(_, _)
FillPattern(m, i) ==
    IF i >= LED_COUNT * 3 THEN m
    ELSE FillPattern(Store3(m, i * 3, black_pattern), i + 1)

\* faulty variant: the padding is left as it was
fill_black_data_only(m, len) == FillPattern(m, 0)
\* fill_black(): the pattern over the data area, then
\* memset(tx_buffer + data_end, 0, tx_buffer_len - data_end)
fill_black(m, len) ==
    LET data_end == LED_COUNT * 9
    IN  Memset(FillPattern(m, 0), data_end, 0, len - data_end)

Red(color) == Shr(color, 16) % 256
Green(color) == Shr(color, 8) % 256
Blue(color) == color % 256

\* faulty variant: the channels stored in the order red, green, blue
set_pixel_rgb_order(m, index, color) ==
    IF index < 0 \/ index >= LED_COUNT THEN m
    ELSE LET ptr == index * 9
         IN  Store3(Store3(Store3(m, ptr, encode_byte(Red(color))),
                           ptr + 3, encode_byte(Green(color))),
                    ptr + 6, encode_byte(Blue(color)))
\* faulty variant: the blue channel is not written
set_pixel_two_channels(m, index, color) ==
    IF index < 0 \/ index >= LED_COUNT THEN m
    ELSE LET ptr == index * 9
         IN  Store3(Store3(m, ptr, encode_byte(Green(color))),
                    ptr + 3, encode_byte(Red(color)))
\* faulty variant: the slot of a pixel taken to be 3 bytes wide
set_pixel_stride3(m, index, color) ==
    IF index < 0 \/ index >= LED_COUNT THEN m
    ELSE LET ptr == index * 3
         IN  Store3(Store3(Store3(m, ptr, encode_byte(Green(color))),
                           ptr + 3, encode_byte(Red(color))),
                    ptr + 6, encode_byte(Blue(color)))
\* faulty variant: no check of index >= LED_COUNT
set_pixel_no_upper_guard(m, index, color) ==
    IF index < 0 THEN m
    ELSE LET ptr == index * 9
         IN  Store3(Store3(Store3(m, ptr, encode_byte(Green(color))),
                           ptr + 3, encode_byte(Red(color))),
                    ptr + 6, encode_byte(Blue(color)))
\* faulty variant: no check of index < 0
set_pixel_no_lower_guard(m, index, color) ==
    IF index >= LED_COUNT THEN m
    ELSE LET ptr == index * 9
         IN  Store3(Store3(Store3(m, ptr, encode_byte(Green(color))),
                           ptr + 3, encode_byte(Red(color))),
                    ptr + 6, encode_byte(Blue(color)))
\* set_pixel(index, color) of the interactive controller
set_pixel(m, index, color) ==
    IF index < 0 \/ index >= LED_COUNT THEN m
    ELSE LET ptr == index * 9
         IN  Store3(Store3(Store3(m, ptr, encode_byte(Green(color))),
                           ptr + 3, encode_byte(Red(color))),
                    ptr + 6, encode_byte(Blue(color)))

\* ------------------------------------------------------- idle variable sets
NoBus == [n |-> 0, frame |-> << >>, len |-> 0, res |-> "none", perror |-> FALSE]
NoCall == [op |-> "none"]

DeviceIdle ==
    /\ spi_fd = -1 /\ fd_state = "none"
    /\ tx_buffer = "NULL" /\ tx_buffer_len = 0
    /\ heap = << >> /\ heap_state = "none" /\ oob = {}
    /\ bus = NoBus /\ frees = 0 /\ misuse = {}
    /\ handler = FALSE /\ sig_installed = FALSE /\ opened = FALSE
    /\ spi_init_ret = "none"

UiIdle ==
    /\ current_led_index = 0 /\ current_color = 9408399
    /\ saved_terminal_settings = "zero" /\ term = "orig"
    /\ atexit_reg = FALSE /\ cmds = 0

deviceVars == <<spi_fd, fd_state, tx_buffer, tx_buffer_len, heap, heap_state,
                oob, bus, frees, misuse, handler, sig_installed, opened, spi_init_ret>>
uiVars == <<current_led_index, current_color, saved_terminal_settings, term,
            atexit_reg, cmds>>
encVars == <<val, out>>
apiVars == <<call, trace, step_i>>
buttonVars == <<lastState, last_state, last_interrupt_time, now, printed>>
buzzerVars == <<current_vol, current_freq, vbit, gpio, aborted>>
ioVars == <<buttonVars, buzzerVars, program>>

\* the globals of the button and buzzer programs as their initialisers leave them
ButtonIdle ==
    /\ lastState = 255 /\ last_state = <<255, 255>>
    /\ last_interrupt_time = 0 /\ now = 0 /\ printed = {}

BuzzerIdle ==
    /\ current_vol = 1 /\ current_freq = 440
    /\ vbit = [k \in 0 .. 3 |-> FALSE]
    /\ gpio = [k \in 0 .. 3 |-> 0]
    /\ aborted = FALSE

IoIdle == ButtonIdle /\ BuzzerIdle /\ program = "none"

\* ---------------------------------------------------------------- the bus
\* what write(2) may answer: all bytes, fewer bytes, or -1
WriteResults == {"ok", "short", "error"}

\* faulty variant: the frame sent in two halves
show_split(fd, bytes, len) ==
    IF fd >= 0
    THEN << [frame |-> [o \in 0 .. (len \div 2) - 1 |-> bytes[o]], len |-> len \div 2],
            [frame |-> [o \in 0 .. len - (len \div 2) - 1 |-> bytes[o + (len \div 2)]],
             len |-> len - (len \div 2)] >>
    ELSE << >>
\* faulty variant: the write issued a second time
show_twice(fd, bytes, len) ==
    IF fd >= 0
    THEN << [frame |-> bytes, len |-> len], [frame |-> bytes, len |-> len] >>
    ELSE << >>
\* The write() calls one show() issues, in order.
\* if (spi_fd >= 0) if (write(spi_fd, tx_buffer, tx_buffer_len) < 0) perror(...)
show(fd, bytes, len) ==
    IF fd >= 0 THEN << [frame |-> bytes, len |-> len] >> ELSE << >>

\* the bus after the write() calls ws, the last of them answering r; report
\* tells whether the caller checks the answer (show does, with perror)
BusAfter(ws, r, report) ==
    IF ws = << >> THEN bus
    ELSE [n |-> bus.n + Len(ws),
          frame |-> ws[Len(ws)].frame,
          len |-> ws[Len(ws)].len,
          res |-> r,
          perror |-> report /\ r = "error"]

\* write() on a descriptor that is not open answers -1 (EBADF)
Answers == IF fd_state = "open" THEN WriteResults ELSE {"error"}

Alive == pc \notin {"exited", "crashed"}

\* ----------------------------------------------------------------- spi_init
\* if ((spi_fd = open(SPI_DEVICE, O_RDWR)) < 0) return -1;
SpiOpen ==
    /\ pc = "spi_open"
    /\ \/ /\ spi_fd' = 3 /\ fd_state' = "open" /\ pc' = "spi_mode"
          /\ spi_init_ret' = spi_init_ret
       \/ /\ spi_fd' = -1 /\ fd_state' = fd_state /\ pc' = "init_failed"
          /\ spi_init_ret' = "failed"
    /\ UNCHANGED <<tx_buffer, tx_buffer_len, heap, heap_state, oob, bus, frees,
                   misuse, handler, sig_installed, opened, uiVars, encVars, apiVars>>
    /\ UNCHANGED ioVars

\* the three ioctl calls: each returns -1 from spi_init when it fails
SpiIoctl ==
    /\ pc \in {"spi_mode", "spi_bits", "spi_speed"}
    /\ \/ /\ pc' = (CASE pc = "spi_mode" -> "spi_bits"
                      [] pc = "spi_bits" -> "spi_speed"
                      [] pc = "spi_speed" -> "spi_malloc")
          /\ spi_init_ret' = spi_init_ret
       \/ /\ pc' = "init_failed"
          /\ spi_init_ret' = "failed"
    /\ UNCHANGED <<spi_fd, fd_state, tx_buffer, tx_buffer_len, heap, heap_state,
                   oob, bus, frees, misuse, handler, sig_installed, opened, uiVars,
                   encVars, apiVars>>
    /\ UNCHANGED ioVars

\* tx_buffer_len = data_len + 100; tx_buffer = malloc(tx_buffer_len);
\* if (!tx_buffer) return -1;
SpiMalloc ==
    /\ pc = "spi_malloc"
    /\ tx_buffer_len' = FrameLen
    /\ \/ /\ \E g \in GarbageFills : heap' = Uninit(FrameLen, g)
          /\ tx_buffer' = "PTR" /\ heap_state' = "live" /\ pc' = "spi_fill"
          /\ spi_init_ret' = spi_init_ret
       \/ /\ tx_buffer' = "NULL" /\ heap' = heap /\ heap_state' = heap_state
          /\ pc' = "init_failed"
          /\ spi_init_ret' = "failed"
    /\ UNCHANGED <<spi_fd, fd_state, oob, bus, frees, misuse, handler, sig_installed,
                   opened, uiVars, encVars, apiVars>>
    /\ UNCHANGED ioVars

\* fill_black();
SpiFill ==
    /\ pc = "spi_fill"
    /\ LET m == fill_black(Mem(heap, oob), tx_buffer_len)
       IN  heap' = m.bytes /\ oob' = m.oob
    /\ pc' = "spi_show"
    /\ UNCHANGED <<spi_fd, fd_state, tx_buffer, tx_buffer_len, heap_state, bus,
                   frees, misuse, handler, sig_installed, opened, spi_init_ret, uiVars, encVars,
                   apiVars>>
    /\ UNCHANGED ioVars

\* show(); return 0;
SpiShow ==
    /\ pc = "spi_show"
    /\ \E r \in Answers : bus' = BusAfter(show(spi_fd, heap, tx_buffer_len), r, TRUE)
    /\ opened' = TRUE /\ spi_init_ret' = "ok"
    /\ call' = [op |-> "show", before |-> heap, n |-> bus.n]
    /\ pc' = "init_ret"
    /\ UNCHANGED <<spi_fd, fd_state, tx_buffer, tx_buffer_len, heap, heap_state,
                   oob, frees, misuse, handler, sig_installed, uiVars, encVars,
                   trace, step_i>>
    /\ UNCHANGED ioVars

\* faulty variant: main goes on after spi_init returned -1
InitFailedIgnored ==
    /\ pc = "init_failed"
    /\ pc' = "init_ret"
    /\ UNCHANGED <<deviceVars, uiVars, encVars, apiVars>>
    /\ UNCHANGED ioVars
\* if (spi_init() < 0) { fprintf(stderr, ...); return 1; }
InitFailed ==
    /\ pc = "init_failed"
    /\ pc' = "exited"
    /\ UNCHANGED <<deviceVars, uiVars, encVars, apiVars>>
    /\ UNCHANGED ioVars

\* ------------------------------------------------------------------ SpecApi
\* The buffer operations of the interactive controller, called in any order and
\* with any arguments on a session that spi_init opened.
ApiIndices == -1 .. LED_COUNT
\* 0x000000, 0xFF0000, 0x0A141E
ApiColors == {0, 16711680, 660510}

InitApi ==
    /\ pc = "spi_open"
    /\ DeviceIdle /\ UiIdle
    /\ val = 0 /\ out = << >>
    /\ call = NoCall /\ trace = << >> /\ step_i = 0
    /\ IoIdle

ApiEnter ==
    /\ pc = "init_ret"
    /\ pc' = "api"
    /\ UNCHANGED <<deviceVars, uiVars, encVars, apiVars>>
    /\ UNCHANGED ioVars

ApiSetPixel ==
    /\ pc = "api" /\ Len(trace) < MaxOps
    /\ \E index \in ApiIndices, color \in ApiColors :
          /\ LET m == set_pixel(Mem(heap, oob), index, color)
             IN  heap' = m.bytes /\ oob' = m.oob
          /\ call' = [op |-> "set_pixel", index |-> index, color |-> color,
                      before |-> heap, n |-> bus.n]
          /\ trace' = Append(trace, <<"set_pixel", index, color>>)
    /\ UNCHANGED <<pc, spi_fd, fd_state, tx_buffer, tx_buffer_len, heap_state,
                   bus, frees, misuse, handler, sig_installed, opened, spi_init_ret, uiVars,
                   encVars, step_i>>
    /\ UNCHANGED ioVars

ApiFillBlack ==
    /\ pc = "api" /\ Len(trace) < MaxOps
    /\ LET m == fill_black(Mem(heap, oob), tx_buffer_len)
       IN  heap' = m.bytes /\ oob' = m.oob
    /\ call' = [op |-> "fill_black", before |-> heap, n |-> bus.n]
    /\ trace' = Append(trace, <<"fill_black">>)
    /\ UNCHANGED <<pc, spi_fd, fd_state, tx_buffer, tx_buffer_len, heap_state,
                   bus, frees, misuse, handler, sig_installed, opened, spi_init_ret, uiVars,
                   encVars, step_i>>
    /\ UNCHANGED ioVars

ApiShow ==
    /\ pc = "api" /\ Len(trace) < MaxOps
    /\ \E r \in Answers : bus' = BusAfter(show(spi_fd, heap, tx_buffer_len), r, TRUE)
    /\ call' = [op |-> "show", before |-> heap, n |-> bus.n, prev |-> bus.frame]
    /\ trace' = Append(trace, <<"show">>)
    /\ UNCHANGED <<pc, spi_fd, fd_state, tx_buffer, tx_buffer_len, heap,
                   heap_state, oob, frees, misuse, handler, sig_installed, opened, spi_init_ret,
                   uiVars, encVars, step_i>>
    /\ UNCHANGED ioVars

NextApi ==
    \/ SpiOpen \/ SpiIoctl \/ SpiMalloc \/ SpiFill \/ SpiShow \/ InitFailed
    \/ ApiEnter \/ ApiSetPixel \/ ApiFillBlack \/ ApiShow
SpecApi == InitApi /\ [][NextApi]_vars

\* --------------------------------------------------------------------- Spec
\* main() of the interactive controller.  SIGINT may arrive between any two
\* steps once the handler is installed; cleanup never returns, so the code it
\* interrupts is never resumed.

\* faulty variant: the plain conversion to uint8_t
clamp_wrapping(v) == v % 256
\* uint8_t clamp(int val)
clamp(v) == IF v > 255 THEN 255 ELSE IF v < 0 THEN 0 ELSE v

Max3(r, g, b) == IF r > g THEN (IF r > b THEN r ELSE b) ELSE (IF g > b THEN g ELSE b)

\* (uint8_t)round((double)c * ((double)n / m)): the quotient is rounded half
\* away from zero; on an exact half the two roundings of the double product
\* may land on either side.
Scaled(c, n, m) ==
    LET up == (2 * c * n + m) \div (2 * m)
    IN  IF (2 * c * n + m) % (2 * m) = 0 /\ up > 0 THEN {up, up - 1} ELSE {up}

\* (r << 16) | (g << 8) | b
Rgb(r, g, b) == BitOr(BitOr(Shl32(r, 16), Shl32(g, 8)), b)

Keys == {"q", "a", "s", "e", "r", "t", "w", "d", "f", "other"}

\* faulty variant: 'previous' without the + LED_COUNT
KeyIndexNoWrap(key, idx) ==
    CASE key = "a" -> (idx + 1) % LED_COUNT
      [] key = "s" -> idx - 1
      [] OTHER -> idx
\* the switch of the command loop: the values current_led_index may take
KeyIndex(key, idx) ==
    CASE key = "a" -> (idx + 1) % LED_COUNT
      [] key = "s" -> (idx - 1 + LED_COUNT) % LED_COUNT
      [] OTHER -> idx

\* the switch of the command loop: the values current_color may take
KeyColors(key, color) ==
    LET r == Red(color)
        g == Green(color)
        b == Blue(color)
        mx == Max3(r, g, b)
    IN  CASE key = "e" ->
               {Rgb(clamp(r + COLOR_STEP), clamp(g - COLOR_STEP \div 2),
                    clamp(b - COLOR_STEP \div 2))}
          [] key = "r" ->
               {Rgb(clamp(r - COLOR_STEP \div 2), clamp(g + COLOR_STEP),
                    clamp(b - COLOR_STEP \div 2))}
          [] key = "t" ->
               {Rgb(clamp(r - COLOR_STEP \div 2), clamp(g - COLOR_STEP \div 2),
                    clamp(b + COLOR_STEP))}
          [] key = "w" -> {9408399}
          [] key = "d" ->
               IF mx = 0
               THEN {Rgb(INTENSITY_STEP, INTENSITY_STEP, INTENSITY_STEP)}
               ELSE IF clamp(mx + INTENSITY_STEP) = mx THEN {color}
               ELSE LET n == clamp(mx + INTENSITY_STEP)
                    IN  {Rgb(x, y, z) : x \in Scaled(r, n, mx),
                                        y \in Scaled(g, n, mx),
                                        z \in Scaled(b, n, mx)}
          [] key = "f" ->
               IF mx = 0 THEN {color}
               ELSE LET n == clamp(mx - INTENSITY_STEP)
                    IN  {Rgb(x, y, z) : x \in Scaled(r, n, mx),
                                        y \in Scaled(g, n, mx),
                                        z \in Scaled(b, n, mx)}
          [] OTHER -> {color}

Init ==
    /\ pc = "main"
    /\ DeviceIdle /\ UiIdle
    /\ val = 0 /\ out = << >>
    /\ call = NoCall /\ trace = << >> /\ step_i = 0
    /\ IoIdle

\* signal(SIGINT, cleanup);
MainSignal ==
    /\ pc = "main"
    /\ sig_installed' = TRUE
    /\ pc' = "spi_open"
    /\ UNCHANGED <<spi_fd, fd_state, tx_buffer, tx_buffer_len, heap, heap_state,
                   oob, bus, frees, misuse, handler, opened, spi_init_ret, uiVars, encVars, apiVars>>
    /\ UNCHANGED ioVars

\* set_terminal_raw_mode(): tcgetattr(STDIN_FILENO, &saved_terminal_settings);
RawGet ==
    /\ pc = "init_ret"
    /\ saved_terminal_settings' = term
    /\ pc' = "raw_set"
    /\ UNCHANGED <<deviceVars, current_led_index, current_color, term,
                   atexit_reg, cmds, encVars, apiVars>>
    /\ UNCHANGED ioVars

\* tcsetattr(STDIN_FILENO, TCSAFLUSH, &tattr);
RawSet ==
    /\ pc = "raw_set"
    /\ term' = "raw"
    /\ pc' = "raw_atexit"
    /\ UNCHANGED <<deviceVars, current_led_index, current_color,
                   saved_terminal_settings, atexit_reg, cmds, encVars, apiVars>>
    /\ UNCHANGED ioVars

\* atexit(restore_terminal_settings);
RawAtexit ==
    /\ pc = "raw_atexit"
    /\ atexit_reg' = TRUE
    /\ pc' = "ud_fill"
    /\ UNCHANGED <<deviceVars, current_led_index, current_color,
                   saved_terminal_settings, term, cmds, encVars, apiVars>>
    /\ UNCHANGED ioVars

\* update_display(): fill_black();
UpdateFill ==
    /\ pc = "ud_fill"
    /\ LET m == fill_black(Mem(heap, oob), tx_buffer_len)
       IN  heap' = m.bytes /\ oob' = m.oob
    /\ pc' = "ud_set"
    /\ UNCHANGED <<spi_fd, fd_state, tx_buffer, tx_buffer_len, heap_state, bus,
                   frees, misuse, handler, sig_installed, opened, spi_init_ret, uiVars, encVars,
                   apiVars>>
    /\ UNCHANGED ioVars

\* update_display(): set_pixel(current_led_index, current_color);
UpdateSet ==
    /\ pc = "ud_set"
    /\ LET m == set_pixel(Mem(heap, oob), current_led_index, current_color)
       IN  heap' = m.bytes /\ oob' = m.oob
    /\ pc' = "ud_show"
    /\ UNCHANGED <<spi_fd, fd_state, tx_buffer, tx_buffer_len, heap_state, bus,
                   frees, misuse, handler, sig_installed, opened, spi_init_ret, uiVars, encVars,
                   apiVars>>
    /\ UNCHANGED ioVars

\* update_display(): show();
UpdateShow ==
    /\ pc = "ud_show"
    /\ \E r \in Answers : bus' = BusAfter(show(spi_fd, heap, tx_buffer_len), r, TRUE)
    /\ call' = [op |-> "show", before |-> heap, n |-> bus.n]
    /\ pc' = "loop_read"
    /\ UNCHANGED <<spi_fd, fd_state, tx_buffer, tx_buffer_len, heap, heap_state,
                   oob, frees, misuse, handler, sig_installed, opened, spi_init_ret, uiVars,
                   encVars, trace, step_i>>
    /\ UNCHANGED ioVars

\* read(STDIN_FILENO, &command, 1) and the switch; 'q' calls cleanup(0)
ReadKey ==
    /\ pc = "loop_read"
    /\ \E key \in Keys :
          IF key = "q"
          THEN /\ pc' = "cl_check"
               /\ UNCHANGED <<current_led_index, current_color, cmds>>
          ELSE /\ cmds < MaxCmds
               /\ cmds' = cmds + 1
               /\ current_led_index' = KeyIndex(key, current_led_index)
               /\ current_color' \in KeyColors(key, current_color)
               /\ pc' = "ud_fill"
    /\ UNCHANGED <<deviceVars, saved_terminal_settings, term, atexit_reg,
                   encVars, apiVars>>
    /\ UNCHANGED ioVars

\* ------------------------------------------------------------------ cleanup
\* A use of the block after free(tx_buffer) is undefined: the access either
\* goes through (the block is still mapped) or the process is killed.

\* faulty variant: the buffer is sent as it is
cleanup_no_blank(m, len) == m
\* cleanup(): fill_black(); before show() and free()
cleanup_blank(m, len) == fill_black(m, len)

\* if (tx_buffer) { ... }
CleanupCheck ==
    /\ pc = "cl_check"
    /\ pc' = IF tx_buffer # "NULL" THEN "cl_fill" ELSE "cl_close"
    /\ UNCHANGED <<deviceVars, uiVars, encVars, apiVars>>
    /\ UNCHANGED ioVars

\* fill_black();
CleanupFill ==
    /\ pc = "cl_fill"
    /\ LET m == cleanup_blank(Mem(heap, oob), tx_buffer_len)
       IN  IF heap_state = "live"
           THEN /\ heap' = m.bytes /\ oob' = m.oob /\ misuse' = misuse
                /\ pc' = "cl_show"
           ELSE /\ misuse' = misuse \cup {"write_after_free"}
                /\ \/ heap' = m.bytes /\ oob' = m.oob /\ pc' = "cl_show"
                   \/ heap' = heap /\ oob' = oob /\ pc' = "crashed"
    /\ UNCHANGED <<spi_fd, fd_state, tx_buffer, tx_buffer_len, heap_state, bus,
                   frees, handler, sig_installed, opened, spi_init_ret, uiVars, encVars,
                   apiVars>>
    /\ UNCHANGED ioVars

\* show();
CleanupShow ==
    /\ pc = "cl_show"
    /\ misuse' = misuse
                  \cup (IF heap_state = "live" THEN {} ELSE {"read_after_free"})
                  \cup (IF fd_state = "closed" THEN {"write_after_close"} ELSE {})
    /\ \E r \in Answers : bus' = BusAfter(show(spi_fd, heap, tx_buffer_len), r, TRUE)
    /\ call' = [op |-> "show", before |-> heap, n |-> bus.n]
    /\ pc' = "cl_free"
    /\ UNCHANGED <<spi_fd, fd_state, tx_buffer, tx_buffer_len, heap, heap_state,
                   oob, frees, handler, sig_installed, opened, spi_init_ret, uiVars, encVars,
                   trace, step_i>>
    /\ UNCHANGED ioVars

\* free(tx_buffer);  (tx_buffer keeps its value)
CleanupFree ==
    /\ pc = "cl_free"
    /\ frees' = frees + 1
    /\ IF heap_state = "live"
       THEN /\ heap_state' = "freed" /\ misuse' = misuse /\ pc' = "cl_close"
       ELSE /\ heap_state' = heap_state
            /\ misuse' = misuse \cup {"double_free"}
            /\ \/ pc' = "cl_close"
               \/ pc' = "crashed"
    /\ UNCHANGED <<spi_fd, fd_state, tx_buffer, tx_buffer_len, heap, oob, bus,
                   handler, sig_installed, opened, spi_init_ret, uiVars, encVars, apiVars>>
    /\ UNCHANGED ioVars

\* if (spi_fd >= 0) close(spi_fd);  (spi_fd keeps its value)
CleanupClose ==
    /\ pc = "cl_close"
    /\ fd_state' = IF spi_fd >= 0 THEN "closed" ELSE fd_state
    /\ misuse' = IF spi_fd >= 0 /\ fd_state = "closed"
                 THEN misuse \cup {"close_after_close"} ELSE misuse
    /\ pc' = "cl_restore"
    /\ UNCHANGED <<spi_fd, tx_buffer, tx_buffer_len, heap, heap_state, oob, bus,
                   frees, handler, sig_installed, opened, spi_init_ret, uiVars, encVars,
                   apiVars>>
    /\ UNCHANGED ioVars

\* restore_terminal_settings();
CleanupRestore ==
    /\ pc = "cl_restore"
    /\ term' = saved_terminal_settings
    /\ pc' = "cl_exit"
    /\ UNCHANGED <<deviceVars, current_led_index, current_color,
                   saved_terminal_settings, atexit_reg, cmds, encVars, apiVars>>
    /\ UNCHANGED ioVars

\* exit(0): runs restore_terminal_settings again if atexit registered it
CleanupExit ==
    /\ pc = "cl_exit"
    /\ term' = IF atexit_reg THEN saved_terminal_settings ELSE term
    /\ pc' = "exited"
    /\ UNCHANGED <<deviceVars, current_led_index, current_color,
                   saved_terminal_settings, atexit_reg, cmds, encVars, apiVars>>
    /\ UNCHANGED ioVars

\* SIGINT is delivered: cleanup(SIGINT) starts.  signal() blocks SIGINT while
\* its handler runs, so the handler is not re-entered; a cleanup(0) that main
\* called is interrupted like any other code.
Sigint ==
    /\ Alive /\ sig_installed /\ ~handler
    /\ handler' = TRUE
    /\ pc' = "cl_check"
    /\ UNCHANGED <<spi_fd, fd_state, tx_buffer, tx_buffer_len, heap, heap_state,
                   oob, bus, frees, misuse, sig_installed, opened, spi_init_ret, uiVars, encVars,
                   apiVars>>
    /\ UNCHANGED ioVars

Next ==
    \/ MainSignal
    \/ SpiOpen \/ SpiIoctl \/ SpiMalloc \/ SpiFill \/ SpiShow \/ InitFailed
    \/ RawGet \/ RawSet \/ RawAtexit
    \/ UpdateFill \/ UpdateSet \/ UpdateShow \/ ReadKey
    \/ CleanupCheck \/ CleanupFill \/ CleanupShow \/ CleanupFree
    \/ CleanupClose \/ CleanupRestore \/ CleanupExit
    \/ Sigint
Spec == Init /\ [][Next]_vars

\* ----------------------------------------------------------------- SpecKeys
\* The command loop of the interactive controller, one key per step, started
\* at read() in states the loop reaches: the colour main starts with, and the
\* colours after 5 times 'd' (0x8F -> A3 -> B7 -> CB -> DF -> F3 on each
\* channel) and after 7 times 'f' (0x8F -> 7B -> 67 -> 53 -> 3F -> 2B -> 17
\* -> 03), with the count of keys that led there.
\* 0x8F8F8F, 0xF3F3F3, 0x030303
StartColors == {[color |-> 9408399, keys |-> 0], [color |-> 15987699, keys |-> 5],
                [color |-> 197379, keys |-> 7]}

\* update_display() as one step: fill_black(); set_pixel(index, color);
display_buffer(m, len, index, color) == set_pixel(fill_black(m, len), index, color)

InitKeys ==
    /\ pc = "loop_read"
    /\ spi_fd = 3 /\ fd_state = "open"
    /\ tx_buffer = "PTR" /\ tx_buffer_len = FrameLen
    /\ heap_state = "live" /\ oob = {}
    /\ frees = 0 /\ misuse = {}
    /\ handler = FALSE /\ sig_installed = TRUE
    /\ opened = TRUE /\ spi_init_ret = "ok"
    /\ saved_terminal_settings = "orig" /\ term = "raw" /\ atexit_reg = TRUE
    /\ current_led_index = 0
    /\ \E start \in StartColors, r \in WriteResults :
          /\ current_color = start.color
          /\ cmds = start.keys
          /\ heap = display_buffer(Mem(Uninit(FrameLen, 0), {}), FrameLen, 0,
                                   start.color).bytes
          /\ bus = [n |-> 2 + start.keys, frame |-> heap, len |-> FrameLen,
                    res |-> r, perror |-> r = "error"]
          /\ call = [op |-> "show", before |-> heap, n |-> 1 + start.keys]
    /\ val = 0 /\ out = << >>
    /\ trace = << >> /\ step_i = 0
    /\ IoIdle

\* one turn of while (true): read a key other than 'q', the switch,
\* update_display(); trace keeps the key with the index and colour before it
KeyCommand ==
    /\ pc = "loop_read" /\ Len(trace) < MaxKeys
    /\ \E key \in Keys \ {"q"} :
          /\ cmds' = cmds + 1
          /\ current_led_index' = KeyIndex(key, current_led_index)
          /\ current_color' \in KeyColors(key, current_color)
          /\ trace' = Append(trace, <<key, current_led_index, current_color>>)
    /\ LET m == display_buffer(Mem(heap, oob), tx_buffer_len, current_led_index',
                               current_color')
       IN  heap' = m.bytes /\ oob' = oob \cup m.oob
    /\ \E r \in Answers :
          bus' = BusAfter(show(spi_fd, heap', tx_buffer_len), r, TRUE)
    /\ call' = [op |-> "show", before |-> heap', n |-> bus.n]
    /\ UNCHANGED <<pc, spi_fd, fd_state, tx_buffer, tx_buffer_len, heap_state,
                   frees, misuse, handler, sig_installed, opened, spi_init_ret,
                   saved_terminal_settings, term, atexit_reg, encVars, step_i>>
    /\ UNCHANGED ioVars

NextKeys == KeyCommand
SpecKeys == InitKeys /\ [][NextKeys]_vars

\* ----------------------------------------------------------------- SpecStep
\* main() of the step-through test (src/unnamed/part_006): each LED in turn is
\* lit white until ENTER is pressed.  Its spi_init zeroes the block, its
\* set_pixel checks only the upper bound, its show and cleanup call write()
\* on spi_fd directly.

\* set_pixel(index, color) of the step-through test
set_pixel_step(m, index, color) ==
    IF index >= LED_COUNT THEN m
    ELSE LET ptr == index * 9
         IN  Store3(Store3(Store3(m, ptr, encode_byte(Green(color))),
                           ptr + 3, encode_byte(Red(color))),
                    ptr + 6, encode_byte(Blue(color)))

\* memset(tx_buffer, 0, tx_buffer_len);
zero_all(m, len) == Memset(m, 0, 0, len)

\* show(): if (write(spi_fd, tx_buffer, tx_buffer_len) < 0) perror(...)
show_step(fd, bytes, len) == << [frame |-> bytes, len |-> len] >>

InitStep ==
    /\ pc = "main"
    /\ DeviceIdle /\ UiIdle
    /\ val = 0 /\ out = << >>
    /\ call = NoCall /\ trace = << >> /\ step_i = 0
    /\ IoIdle

\* tx_buffer_len = ... / 8; tx_buffer_len += 100; tx_buffer = malloc(tx_buffer_len);
\* if (!tx_buffer) return -1;
StepMalloc ==
    /\ pc = "spi_malloc"
    /\ tx_buffer_len' = FrameLen
    /\ \/ /\ \E g \in GarbageFills : heap' = Uninit(FrameLen, g)
          /\ tx_buffer' = "PTR" /\ heap_state' = "live" /\ pc' = "st_memset"
          /\ spi_init_ret' = spi_init_ret
       \/ /\ tx_buffer' = "NULL" /\ heap' = heap /\ heap_state' = heap_state
          /\ pc' = "init_failed"
          /\ spi_init_ret' = "failed"
    /\ UNCHANGED <<spi_fd, fd_state, oob, bus, frees, misuse, handler,
                   sig_installed, opened, uiVars, encVars, apiVars>>
    /\ UNCHANGED ioVars

\* memset(tx_buffer, 0, tx_buffer_len); return 0;
StepMemset ==
    /\ pc = "st_memset"
    /\ LET m == zero_all(Mem(heap, oob), tx_buffer_len)
       IN  heap' = m.bytes /\ oob' = m.oob
    /\ opened' = TRUE /\ spi_init_ret' = "ok"
    /\ pc' = "st_clear"
    /\ UNCHANGED <<spi_fd, fd_state, tx_buffer, tx_buffer_len, heap_state, bus,
                   frees, misuse, handler, sig_installed, uiVars, encVars,
                   apiVars>>
    /\ UNCHANGED ioVars

\* clear(): memset(tx_buffer, 0, tx_buffer_len);
StepClearMemset ==
    /\ pc = "st_clear"
    /\ LET m == zero_all(Mem(heap, oob), tx_buffer_len)
       IN  heap' = m.bytes /\ oob' = m.oob
    /\ pc' = "st_clear_show"
    /\ UNCHANGED <<spi_fd, fd_state, tx_buffer, tx_buffer_len, heap_state, bus,
                   frees, misuse, handler, sig_installed, opened, spi_init_ret, uiVars,
                   encVars, apiVars>>
    /\ UNCHANGED ioVars

\* clear(): show();
StepClearShow ==
    /\ pc = "st_clear_show"
    /\ \E r \in Answers :
          bus' = BusAfter(show_step(spi_fd, heap, tx_buffer_len), r, TRUE)
    /\ call' = [op |-> "clear", before |-> heap, n |-> bus.n]
    /\ pc' = "st_on"
    /\ UNCHANGED <<spi_fd, fd_state, tx_buffer, tx_buffer_len, heap, heap_state,
                   oob, frees, misuse, handler, sig_installed, opened, spi_init_ret, uiVars,
                   encVars, trace, step_i>>
    /\ UNCHANGED ioVars

\* for (int i = 0; i < LED_COUNT; i++) { set_pixel(i, 0xFFFFFF); ... }
\* and, after the loop, cleanup(0)
StepSetOn ==
    /\ pc = "st_on"
    /\ IF step_i < LED_COUNT
       THEN /\ LET m == set_pixel_step(Mem(heap, oob), step_i, 16777215)
               IN  heap' = m.bytes /\ oob' = m.oob
            /\ call' = [op |-> "set_pixel", index |-> step_i, color |-> 16777215,
                        before |-> heap, n |-> bus.n]
            /\ pc' = "st_show_on"
       ELSE /\ heap' = heap /\ oob' = oob /\ call' = call
            /\ pc' = "sc_check"
    /\ UNCHANGED <<spi_fd, fd_state, tx_buffer, tx_buffer_len, heap_state, bus,
                   frees, misuse, handler, sig_installed, opened, spi_init_ret, uiVars,
                   encVars, trace, step_i>>
    /\ UNCHANGED ioVars

\* show(); after either set_pixel of the loop body
StepShow ==
    /\ pc \in {"st_show_on", "st_show_off"}
    /\ \E r \in Answers :
          bus' = BusAfter(show_step(spi_fd, heap, tx_buffer_len), r, TRUE)
    /\ call' = [op |-> "show", before |-> heap, n |-> bus.n]
    /\ IF pc = "st_show_on"
       THEN pc' = "st_wait" /\ step_i' = step_i
       ELSE pc' = "st_on" /\ step_i' = step_i + 1
    /\ UNCHANGED <<spi_fd, fd_state, tx_buffer, tx_buffer_len, heap, heap_state,
                   oob, frees, misuse, handler, sig_installed, opened, spi_init_ret, uiVars,
                   encVars, trace>>
    /\ UNCHANGED ioVars

\* while (getchar() != '\n');
StepEnter ==
    /\ pc = "st_wait"
    /\ pc' = "st_off"
    /\ UNCHANGED <<deviceVars, uiVars, encVars, apiVars>>
    /\ UNCHANGED ioVars

\* faulty variant: the LED that was lit is not switched off again
StepSetOffSkipped ==
    /\ pc = "st_off"
    /\ pc' = "st_show_off"
    /\ UNCHANGED <<deviceVars, uiVars, encVars, apiVars>>
    /\ UNCHANGED ioVars
\* set_pixel(i, 0x000000);
StepSetOff ==
    /\ pc = "st_off"
    /\ LET m == set_pixel_step(Mem(heap, oob), step_i, 0)
       IN  heap' = m.bytes /\ oob' = m.oob
    /\ call' = [op |-> "set_pixel", index |-> step_i, color |-> 0,
                before |-> heap, n |-> bus.n]
    /\ pc' = "st_show_off"
    /\ UNCHANGED <<spi_fd, fd_state, tx_buffer, tx_buffer_len, heap_state, bus,
                   frees, misuse, handler, sig_installed, opened, spi_init_ret, uiVars,
                   encVars, trace, step_i>>
    /\ UNCHANGED ioVars

\* cleanup(): if (tx_buffer) { ... }
StepCleanupCheck ==
    /\ pc = "sc_check"
    /\ pc' = IF tx_buffer # "NULL" THEN "sc_memset" ELSE "sc_close"
    /\ UNCHANGED <<deviceVars, uiVars, encVars, apiVars>>
    /\ UNCHANGED ioVars

\* cleanup(): memset(tx_buffer, 0, tx_buffer_len);
StepCleanupMemset ==
    /\ pc = "sc_memset"
    /\ LET m == zero_all(Mem(heap, oob), tx_buffer_len)
       IN  IF heap_state = "live"
           THEN /\ heap' = m.bytes /\ oob' = m.oob /\ misuse' = misuse
                /\ pc' = "sc_write"
           ELSE /\ misuse' = misuse \cup {"write_after_free"}
                /\ \/ heap' = m.bytes /\ oob' = m.oob /\ pc' = "sc_write"
                   \/ heap' = heap /\ oob' = oob /\ pc' = "crashed"
    /\ UNCHANGED <<spi_fd, fd_state, tx_buffer, tx_buffer_len, heap_state, bus,
                   frees, handler, sig_installed, opened, spi_init_ret, uiVars, encVars,
                   apiVars>>
    /\ UNCHANGED ioVars

\* cleanup(): if (spi_fd >= 0) write(spi_fd, tx_buffer, tx_buffer_len);
StepCleanupWrite ==
    /\ pc = "sc_write"
    /\ misuse' = misuse
                  \cup (IF heap_state = "live" THEN {} ELSE {"read_after_free"})
                  \cup (IF fd_state = "closed" THEN {"write_after_close"} ELSE {})
    /\ \E r \in Answers :
          bus' = BusAfter(show(spi_fd, heap, tx_buffer_len), r, FALSE)
    /\ pc' = "sc_free"
    /\ UNCHANGED <<spi_fd, fd_state, tx_buffer, tx_buffer_len, heap, heap_state,
                   oob, frees, handler, sig_installed, opened, spi_init_ret, uiVars, encVars,
                   apiVars>>
    /\ UNCHANGED ioVars

\* cleanup(): free(tx_buffer);
StepCleanupFree ==
    /\ pc = "sc_free"
    /\ frees' = frees + 1
    /\ IF heap_state = "live"
       THEN /\ heap_state' = "freed" /\ misuse' = misuse /\ pc' = "sc_close"
       ELSE /\ heap_state' = heap_state
            /\ misuse' = misuse \cup {"double_free"}
            /\ \/ pc' = "sc_close"
               \/ pc' = "crashed"
    /\ UNCHANGED <<spi_fd, fd_state, tx_buffer, tx_buffer_len, heap, oob, bus,
                   handler, sig_installed, opened, spi_init_ret, uiVars, encVars, apiVars>>
    /\ UNCHANGED ioVars

\* cleanup(): if (spi_fd >= 0) close(spi_fd); printf(...); exit(0);
StepCleanupClose ==
    /\ pc = "sc_close"
    /\ fd_state' = IF spi_fd >= 0 THEN "closed" ELSE fd_state
    /\ misuse' = IF spi_fd >= 0 /\ fd_state = "closed"
                 THEN misuse \cup {"close_after_close"} ELSE misuse
    /\ pc' = "sc_exit"
    /\ UNCHANGED <<spi_fd, tx_buffer, tx_buffer_len, heap, heap_state, oob, bus,
                   frees, handler, sig_installed, opened, spi_init_ret, uiVars, encVars,
                   apiVars>>
    /\ UNCHANGED ioVars

StepCleanupExit ==
    /\ pc = "sc_exit"
    /\ pc' = "exited"
    /\ UNCHANGED <<deviceVars, uiVars, encVars, apiVars>>
    /\ UNCHANGED ioVars

\* SIGINT: cleanup(SIGINT) starts
StepSigint ==
    /\ Alive /\ sig_installed /\ ~handler
    /\ handler' = TRUE
    /\ pc' = "sc_check"
    /\ UNCHANGED <<spi_fd, fd_state, tx_buffer, tx_buffer_len, heap, heap_state,
                   oob, bus, frees, misuse, sig_installed, opened, spi_init_ret, uiVars,
                   encVars, apiVars>>
    /\ UNCHANGED ioVars

NextStep ==
    \/ MainSignal
    \/ SpiOpen \/ SpiIoctl \/ StepMalloc \/ StepMemset \/ InitFailed
    \/ StepClearMemset \/ StepClearShow
    \/ StepSetOn \/ StepShow \/ StepEnter \/ StepSetOff
    \/ StepCleanupCheck \/ StepCleanupMemset \/ StepCleanupWrite
    \/ StepCleanupFree \/ StepCleanupClose \/ StepCleanupExit
    \/ StepSigint
SpecStep == InitStep /\ [][NextStep]_vars

\* --------------------------------------------------------------- SpecStep50
\* The buffer operations of the 50-LED step-through test (its own set_pixel,
\* show and clear), called in any order on the session its spi_init opened.

\* BLUE: for(int b=7; b>=0; b--) p = (p << 3) | (((b >> b) & 1) ? 0b110 : 0b100);
\* the loop variable b hides the blue byte b: the bit tested is bit b of b
RECURSIVE BlueLoop(_, _)
BlueLoop(b, p) ==
    IF b < 0 THEN p
    ELSE BlueLoop(b - 1, BitOr(Shl32(p, 3), Symbol(b, b)))

\* set_pixel(index, color) of the 50-LED test: memset(ptr, 0, 9), then the
\* green, red and blue loops, each followed by its three stores
set_pixel_50(m, index, color) ==
    IF index >= LED_COUNT THEN m
    ELSE LET ptr == index * 9
             g == Green(color)
             r == Red(color)
         IN  Store3(Store3(Store3(Memset(m, ptr, 0, 9),
                                  ptr, Pack(EncodeLoop(g, 7, 0))),
                           ptr + 3, Pack(EncodeLoop(r, 7, 0))),
                    ptr + 6, Pack(BlueLoop(7, 0)))

\* clear(): memset(tx_buffer, 0, LED_COUNT * 9);
clear_50(m) == Memset(m, 0, 0, LED_COUNT * 9)

\* 0x000000, 0xFFFFFF (the colour main uses), 0x0A141E
Colors50 == {0, 16777215, 660510}

\* after spi_init returned 0: descriptor open, block allocated and zeroed
InitStep50 ==
    /\ pc = "api50"
    /\ spi_fd = 3 /\ fd_state = "open"
    /\ tx_buffer = "PTR" /\ tx_buffer_len = FrameLen
    /\ heap = [o \in 0 .. FrameLen - 1 |-> 0] /\ heap_state = "live" /\ oob = {}
    /\ bus = NoBus /\ frees = 0 /\ misuse = {}
    /\ handler = FALSE /\ sig_installed = TRUE
    /\ opened = TRUE /\ spi_init_ret = "ok"
    /\ UiIdle
    /\ val = 0 /\ out = << >>
    /\ call = NoCall /\ trace = << >> /\ step_i = 0
    /\ IoIdle

Step50SetPixel ==
    /\ pc = "api50" /\ Len(trace) < MaxOps
    /\ \E index \in -1 .. LED_COUNT, color \in Colors50 :
          /\ LET m == set_pixel_50(Mem(heap, oob), index, color)
             IN  heap' = m.bytes /\ oob' = m.oob
          /\ call' = [op |-> "set_pixel", index |-> index, color |-> color,
                      before |-> heap, n |-> bus.n]
          /\ trace' = Append(trace, <<"set_pixel", index, color>>)
    /\ UNCHANGED <<pc, spi_fd, fd_state, tx_buffer, tx_buffer_len, heap_state,
                   bus, frees, misuse, handler, sig_installed, opened,
                   spi_init_ret, uiVars, encVars, step_i>>
    /\ UNCHANGED ioVars

\* show(): if (write(spi_fd, tx_buffer, tx_buffer_len) < 0) perror(...)
Step50Show ==
    /\ pc = "api50" /\ Len(trace) < MaxOps
    /\ \E r \in Answers :
          bus' = BusAfter(show_step(spi_fd, heap, tx_buffer_len), r, TRUE)
    /\ call' = [op |-> "show", before |-> heap, n |-> bus.n]
    /\ trace' = Append(trace, <<"show">>)
    /\ UNCHANGED <<pc, spi_fd, fd_state, tx_buffer, tx_buffer_len, heap,
                   heap_state, oob, frees, misuse, handler, sig_installed, opened,
                   spi_init_ret, uiVars, encVars, step_i>>
    /\ UNCHANGED ioVars

\* clear(): the memset of the data area, then show()
Step50Clear ==
    /\ pc = "api50" /\ Len(trace) < MaxOps
    /\ LET m == clear_50(Mem(heap, oob))
       IN  /\ heap' = m.bytes /\ oob' = m.oob
           /\ \E r \in Answers :
                 bus' = BusAfter(show_step(spi_fd, m.bytes, tx_buffer_len), r, TRUE)
    /\ call' = [op |-> "clear", before |-> heap, n |-> bus.n]
    /\ trace' = Append(trace, <<"clear">>)
    /\ UNCHANGED <<pc, spi_fd, fd_state, tx_buffer, tx_buffer_len, heap_state,
                   frees, misuse, handler, sig_installed, opened, spi_init_ret,
                   uiVars, encVars, step_i>>
    /\ UNCHANGED ioVars

NextStep50 == Step50SetPixel \/ Step50Show \/ Step50Clear
SpecStep50 == InitStep50 /\ [][NextStep50]_vars

\* ------------------------------------------------------------------ SpecEnc
InitEnc ==
    /\ pc = "enc_call" /\ val \in Byte /\ out = << >>
    /\ DeviceIdle /\ UiIdle
    /\ call = NoCall /\ trace = << >> /\ step_i = 0
    /\ IoIdle

EncodeCall ==
    /\ pc = "enc_call"
    /\ out' = encode_byte(val)
    /\ pc' = "enc_done"
    /\ UNCHANGED <<val, deviceVars, uiVars, apiVars>>
    /\ UNCHANGED ioVars

EncodeAgain ==
    /\ pc = "enc_done"
    /\ \E v \in Byte : val' = v
    /\ out' = << >>
    /\ pc' = "enc_call"
    /\ UNCHANGED <<deviceVars, uiVars, apiVars>>
    /\ UNCHANGED ioVars

NextEnc == EncodeCall \/ EncodeAgain
SpecEnc == InitEnc /\ [][NextEnc]_vars

\* ----------------------------------------------------------------- SpecPoll
\* main() of the polling button monitor (src/buttons/read_buttons_no_interrupt.c):
\* the port is read every 50 ms and the byte compared with lastState.

\* bytes the expander answers with: 1 = released, 0 = pressed
PortValues == {255, 254, 253, 252, 251, 127, 126, 0}

\* !((state >> i) & 1)
isPressed(state, i) == Shr(state, i) % 2 = 0

\* faulty variant: a button is reported for as long as it is held
PressLoopLevel(currentState, before) ==
    {i \in 0 .. 7 : isPressed(currentState, i)}

\* for (i = 0; i < 8; i++) if (isPressed && !wasPressed) printf(...)
PressLoop(currentState, before) ==
    {i \in 0 .. 7 : isPressed(currentState, i) /\ ~isPressed(before, i)}

InitPoll ==
    /\ pc = "poll_open"
    /\ DeviceIdle /\ UiIdle
    /\ val = 0 /\ out = << >>
    /\ call = NoCall /\ trace = << >> /\ step_i = 0
    /\ ButtonIdle /\ BuzzerIdle
    /\ program = "read_buttons_no_interrupt"

\* open(filename, O_RDWR) and ioctl(file, I2C_SLAVE, I2C_ADDR): either may fail,
\* and main returns 1
PollOpen ==
    /\ pc = "poll_open"
    /\ pc' \in {"poll_read", "exited"}
    /\ UNCHANGED <<deviceVars, uiVars, encVars, apiVars>>
    /\ UNCHANGED ioVars

\* one turn of while (1): read(file, buffer, 1); on failure perror, usleep and
\* continue; otherwise the comparison with lastState, the press loop and
\* lastState = currentState.  trace keeps the bytes read successfully.
PollRead ==
    /\ pc = "poll_read" /\ Len(trace) < MaxReads
    /\ \/ /\ call' = [op |-> "poll", ret |-> "failed", lastState |-> lastState]
          /\ printed' = {}
          /\ UNCHANGED <<lastState, trace>>
       \/ \E currentState \in PortValues :
             /\ call' = [op |-> "poll", ret |-> "ok", lastState |-> lastState]
             /\ IF currentState # lastState
                THEN /\ printed' = PressLoop(currentState, lastState)
                     /\ lastState' = currentState
                ELSE /\ printed' = {}
                     /\ lastState' = lastState
             /\ trace' = Append(trace, currentState)
    /\ UNCHANGED <<pc, deviceVars, uiVars, encVars, step_i>>
    /\ UNCHANGED <<last_state, last_interrupt_time, now, buzzerVars, program>>

NextPoll == PollOpen \/ PollRead
SpecPoll == InitPoll /\ [][NextPoll]_vars

\* ------------------------------------------------------------------ SpecIrq
\* The interrupt-driven button monitors: src/buttons/read_buttons_lgpio_full.c,
\* src/unnamed/part_001 and the last program of src/unnamed/part_000.  program
\* says which one runs.  trace keeps every port read of main and every
\* interrupt, with the clock and the outcome.
IrqPrograms == {"read_buttons_lgpio_full", "part_001", "part_000"}

\* faulty variant: no debounce
DebounceOff(prog) == 0

\* if (now - last_interrupt_time < 50) return;   (< 20 in part_000)
DebounceMs(prog) == IF prog = "part_000" THEN 20 ELSE 50

\* the two input ports as the expander returns them
PortPairs == {<<255, 255>>, <<254, 255>>, <<252, 254>>}

\* milliseconds between two falling edges of the INT line
Gaps == {10, 30, 60}

InitIrq ==
    /\ pc = "irq_init"
    /\ DeviceIdle /\ UiIdle
    /\ val = 0 /\ out = << >>
    /\ call = NoCall /\ trace = << >> /\ step_i = 0
    /\ lastState = 255 /\ last_state = <<255, 255>>
    /\ last_interrupt_time = 0 /\ now = 1000 /\ printed = {}
    /\ BuzzerIdle
    /\ program \in IrqPrograms

\* main(): if (read_pca9555_inputs(init_data) == 0) { last_state[0] = init_data[0];
\* last_state[1] = init_data[1]; } before the alert is claimed; part_001 makes
\* no such read
IrqInitialRead ==
    /\ pc = "irq_init"
    /\ pc' = "irq_wait"
    /\ IF program = "part_001"
       THEN UNCHANGED <<last_state, trace>>
       ELSE \/ \E data \in PortPairs :
                  /\ last_state' = data
                  /\ trace' = Append(trace, [at |-> now, ret |-> "initial",
                                             data |-> data])
            \/ UNCHANGED <<last_state, trace>>
    /\ UNCHANGED <<deviceVars, uiVars, encVars, call, step_i>>
    /\ UNCHANGED <<lastState, last_interrupt_time, now, printed, buzzerVars, program>>

\* on_interrupt(): the debounce test, last_interrupt_time = now, the port read,
\* the press loop over port 0 and the update of last_state
on_interrupt ==
    /\ pc = "irq_wait" /\ Len(trace) < MaxIrqs
    /\ \E gap \in Gaps : now' = now + gap
    /\ IF now' - last_interrupt_time < DebounceMs(program)
       THEN /\ call' = [op |-> "on_interrupt", ret |-> "ignored", i2c |-> FALSE,
                        last_state |-> last_state,
                        last_interrupt_time |-> last_interrupt_time]
            /\ trace' = Append(trace, [at |-> now', ret |-> "ignored",
                                       data |-> << >>])
            /\ printed' = {}
            /\ UNCHANGED <<last_state, last_interrupt_time>>
       ELSE /\ last_interrupt_time' = now'
            /\ \/ /\ call' = [op |-> "on_interrupt", ret |-> "failed", i2c |-> TRUE,
                              last_state |-> last_state,
                              last_interrupt_time |-> last_interrupt_time]
                  /\ trace' = Append(trace, [at |-> now', ret |-> "failed",
                                             data |-> << >>])
                  /\ printed' = {}
                  /\ UNCHANGED last_state
               \/ \E data \in PortPairs :
                     /\ call' = [op |-> "on_interrupt", ret |-> "ok", i2c |-> TRUE,
                                 last_state |-> last_state,
                                 last_interrupt_time |-> last_interrupt_time]
                     /\ trace' = Append(trace, [at |-> now', ret |-> "ok",
                                                data |-> data])
                     /\ printed' = PressLoop(data[1], last_state[1])
                     /\ last_state' = data
    /\ UNCHANGED <<pc, deviceVars, uiVars, encVars, step_i>>
    /\ UNCHANGED <<lastState, buzzerVars, program>>

NextIrq == IrqInitialRead \/ on_interrupt
SpecIrq == InitIrq /\ [][NextIrq]_vars

\* --------------------------------------------------------------- SpecBuzzer
\* The buzzer programs.  The demos (src/unnamed/part_004, src/unnamed/part_002)
\* and the interactive controller (src/unnamed/part_003) have a set_volume(int),
\* called here with any argument; main() of the interactive controller and of
\* its single-pin variant (src/buzzer/buzzer_interactive_single_pins.c) runs on
\* arrow and letter keys.  gpio[3] .. gpio[0] are PIN_VOL_3 .. PIN_VOL_0.

\* if (temp_volume > MAX_VOLUME) temp_volume = MAX_VOLUME;
\* if (temp_volume < MIN_VOLUME) temp_volume = MIN_VOLUME;
ClampVolume(volume) ==
    LET upper == IF volume > MAX_VOLUME THEN MAX_VOLUME ELSE volume
    IN  IF upper < MIN_VOLUME THEN MIN_VOLUME ELSE upper

\* set_volume of the demos: both weight tests write PIN_VOL_3, the assertion
\* allows a residual of 0 or 1, and PIN_VOL_0 is written after it
set_volume_demo(volume, g) ==
    LET clamped == ClampVolume(volume)
        after4 == IF clamped >= 4 THEN clamped - 4 ELSE clamped
        g4 == [g EXCEPT ![3] = IF clamped >= 4 THEN 1 ELSE 0]
        after2 == IF after4 >= 2 THEN after4 - 2 ELSE after4
        g2 == [g4 EXCEPT ![3] = IF after4 >= 2 THEN 1 ELSE 0]
        holds == after2 >= 0 /\ after2 <= 1
    IN  [temp_volume |-> after2, abort |-> ~holds,
         gpio |-> IF holds THEN [g2 EXCEPT ![0] = after2] ELSE g2]

\* faulty variant: the residual written as two independent bits
set_volume_both_pins(volume, g) ==
    LET clamped == ClampVolume(volume)
        after4 == IF clamped >= 4 THEN clamped - 4 ELSE clamped
        after2 == IF after4 >= 2 THEN after4 - 2 ELSE after4
        holds == after2 >= 0 /\ after2 <= 2
    IN  [temp_volume |-> after2, abort |-> ~holds,
         gpio |-> IF holds
                  THEN (3 :> (IF clamped >= 4 THEN 1 ELSE 0)) @@
                       (2 :> (IF after4 >= 2 THEN 1 ELSE 0)) @@
                       (1 :> (IF after2 = 2 THEN 1 ELSE 0)) @@
                       (0 :> (IF after2 >= 1 THEN 1 ELSE 0))
                  ELSE g]

\* set_volume of the interactive controller: the four levels are computed in
\* locals, the assertion allows a residual of 0, 1 or 2, and a residual of 2
\* raises pin 1, a residual of 1 raises pin 0
set_volume(volume, g) ==
    LET clamped == ClampVolume(volume)
        after4 == IF clamped >= 4 THEN clamped - 4 ELSE clamped
        after2 == IF after4 >= 2 THEN after4 - 2 ELSE after4
        holds == after2 >= 0 /\ after2 <= 2
    IN  [temp_volume |-> after2, abort |-> ~holds,
         gpio |-> IF holds
                  THEN (3 :> (IF clamped >= 4 THEN 1 ELSE 0)) @@
                       (2 :> (IF after4 >= 2 THEN 1 ELSE 0)) @@
                       (1 :> (IF after2 = 2 THEN 1 ELSE 0)) @@
                       (0 :> (IF after2 # 2 /\ after2 = 1 THEN 1 ELSE 0))
                  ELSE g]

\* set_volume of the single-pin variant: the four bools written as they are
set_volume_pins(vol_pin) == [k \in 0 .. 3 |-> IF vol_pin[k] THEN 1 ELSE 0]

\* case 'C' (right) and case 'D' (left)
KeyFreq(key, freq) ==
    CASE key = "RIGHT" -> IF freq < MAX_FREQ THEN freq + FREQ_STEP ELSE freq
      [] key = "LEFT"  -> IF freq > MIN_FREQ THEN freq - FREQ_STEP ELSE freq
      [] OTHER -> freq

\* case 'A' (up) and case 'B' (down) of the interactive controller
KeyVol(key, vol) ==
    CASE key = "UP"   -> IF vol < MAX_VOLUME THEN vol + 1 ELSE vol
      [] key = "DOWN" -> IF vol > MIN_VOLUME THEN vol - 1 ELSE vol
      [] OTHER -> vol

\* case 'a', 's', 'd', 'f' of the single-pin variant
KeyPins(key, vol_pin) ==
    CASE key = "a" -> [vol_pin EXCEPT ![3] = ~@]
      [] key = "s" -> [vol_pin EXCEPT ![2] = ~@]
      [] key = "d" -> [vol_pin EXCEPT ![1] = ~@,
                                      ![0] = IF ~vol_pin[1] THEN FALSE ELSE @]
      [] key = "f" -> [vol_pin EXCEPT ![0] = ~@,
                                      ![1] = IF ~vol_pin[0] THEN FALSE ELSE @]
      [] OTHER -> vol_pin

DemoPrograms == {"part_004", "part_002"}
SinglePins == "buzzer_interactive_single_pins"
\* arguments of set_volume: the demos pass 0 .. 8 and 15
VolumeArgs == {-1, 0, 1, 2, 3, 4, 5, 6, 7, 8, 9, 15}
\* what read(STDIN_FILENO, &c, 1) and the escape sequence deliver, 'q' apart
BuzzerKeys == {"UP", "DOWN", "RIGHT", "LEFT", "a", "s", "d", "f"}

InitBuzzer ==
    /\ DeviceIdle /\ UiIdle
    /\ val = 0 /\ out = << >>
    /\ call = NoCall /\ trace = << >> /\ step_i = 0
    /\ ButtonIdle /\ BuzzerIdle
    /\ \/ pc = "vol_call" /\ program \in DemoPrograms \cup {"part_003"}
       \/ pc = "buzzer_main" /\ program \in {"part_003", SinglePins}

\* set_volume(volume) with any argument; a failed assertion aborts the process
VolumeCall ==
    /\ pc = "vol_call" /\ ~aborted /\ Len(trace) < MaxOps
    /\ \E volume \in VolumeArgs :
          LET r == IF program \in DemoPrograms
                   THEN set_volume_demo(volume, gpio)
                   ELSE set_volume(volume, gpio)
          IN  /\ gpio' = r.gpio
              /\ aborted' = r.abort
              /\ call' = [op |-> "set_volume", volume |-> volume,
                          temp_volume |-> r.temp_volume]
              /\ trace' = Append(trace, volume)
    /\ UNCHANGED <<pc, deviceVars, uiVars, encVars, step_i>>
    /\ UNCHANGED <<buttonVars, current_vol, current_freq, vbit, program>>

\* main() up to the loop: int current_vol = 1; int current_freq = 440;
\* set_volume(current_vol)    (bool v3 .. v0 = 0; set_volume(v3, v2, v1, v0))
BuzzerStart ==
    /\ pc = "buzzer_main"
    /\ IF program = SinglePins
       THEN /\ gpio' = set_volume_pins(vbit)
            /\ aborted' = aborted
            /\ call' = [op |-> "set_volume_pins"]
       ELSE LET r == set_volume(current_vol, gpio)
            IN  /\ gpio' = r.gpio
                /\ aborted' = r.abort
                /\ call' = [op |-> "set_volume", volume |-> current_vol,
                            temp_volume |-> r.temp_volume]
    /\ pc' = IF aborted' THEN "exited" ELSE "buzzer_loop"
    /\ UNCHANGED <<deviceVars, uiVars, encVars, trace, step_i>>
    /\ UNCHANGED <<buttonVars, current_vol, current_freq, vbit, program>>

\* one turn of while (keep_running && read(...) == 1) for a key other than 'q':
\* the switch, then set_volume and start_tone.  The interactive controller has
\* no letter keys and the single-pin variant no up and down.
BuzzerKey ==
    /\ pc = "buzzer_loop"
    /\ \E key \in BuzzerKeys :
          /\ current_freq' = KeyFreq(key, current_freq)
          /\ IF program = SinglePins
             THEN /\ vbit' = KeyPins(key, vbit)
                  /\ current_vol' = current_vol
                  /\ gpio' = set_volume_pins(vbit')
                  /\ aborted' = aborted
                  /\ call' = [op |-> "set_volume_pins", key |-> key,
                              freq |-> current_freq]
             ELSE /\ current_vol' = KeyVol(key, current_vol)
                  /\ vbit' = vbit
                  /\ LET r == set_volume(current_vol', gpio)
                     IN  /\ gpio' = r.gpio
                         /\ aborted' = r.abort
                         /\ call' = [op |-> "set_volume", volume |-> current_vol',
                                     temp_volume |-> r.temp_volume, key |-> key,
                                     freq |-> current_freq]
    /\ pc' = IF aborted' THEN "exited" ELSE "buzzer_loop"
    /\ UNCHANGED <<deviceVars, uiVars, encVars, trace, step_i>>
    /\ UNCHANGED <<buttonVars, program>>

\* 'q': break; stop_tone(); set_volume(0)    (set_volume(0, 0, 0, 0))
BuzzerQuit ==
    /\ pc = "buzzer_loop"
    /\ IF program = SinglePins
       THEN /\ gpio' = set_volume_pins([k \in 0 .. 3 |-> FALSE])
            /\ aborted' = aborted
            /\ call' = [op |-> "set_volume_pins"]
       ELSE LET r == set_volume(0, gpio)
            IN  /\ gpio' = r.gpio
                /\ aborted' = r.abort
                /\ call' = [op |-> "set_volume", volume |-> 0,
                            temp_volume |-> r.temp_volume]
    /\ pc' = "exited"
    /\ UNCHANGED <<deviceVars, uiVars, encVars, trace, step_i>>
    /\ UNCHANGED <<buttonVars, current_vol, current_freq, vbit, program>>

NextBuzzer == VolumeCall \/ BuzzerStart \/ BuzzerKey \/ BuzzerQuit
SpecBuzzer == InitBuzzer /\ [][NextBuzzer]_vars

\* ------------------------------------------------------- claims on SpecEnc
\* bit n (0 = first on the wire) of three bytes read most-significant-bit first
WireBit(bytes, n) == Shr(bytes[(n \div 8) + 1], 7 - (n % 8)) % 2
DataBit(v, j) == Shr(v, 7 - j) % 2

\* C1: for every byte value v, encode_byte(v) is exactly 3 bytes whose 24 bits,
\* most significant first, are the groups 110 (data bit 1) and 100 (data bit 0)
\* of the 8 bits of v, most significant first.
C1_EncodeGroups ==
    pc = "enc_done" =>
        /\ Len(out) = 3
        /\ \A k \in 1 .. 3 : out[k] \in Byte
        /\ \A j \in 0 .. 7 :
              /\ WireBit(out, 3 * j) = 1
              /\ WireBit(out, 3 * j + 1) = DataBit(val, j)
              /\ WireBit(out, 3 * j + 2) = 0
C1_Witness == pc = "enc_done" /\ val = 165 /\ out = <<211, 73, 166>>

\* decode: the middle bit of each of the 8 three-bit groups, most significant first
RECURSIVE DecodeFrom(_, _)
DecodeFrom(bytes, j) ==
    IF j > 7 THEN 0
    ELSE WireBit(bytes, 3 * j + 1) * (2 ^ (7 - j)) + DecodeFrom(bytes, j + 1)
Decode(bytes) == DecodeFrom(bytes, 0)

\* C2: round trip: decoding encode_byte(v) gives v again, so no other byte value
\* has the same encoding.
C2_RoundTrip ==
    pc = "enc_done" =>
        /\ Decode(out) = val
        /\ \A w \in Byte : encode_byte(w) = out => w = val
C2_Witness == pc = "enc_done" /\ val = 90 /\ Decode(out) = 90

\* C3: encode_byte(0x00) = {0x92, 0x49, 0x24} and encode_byte(0xFF) = {0xDB, 0x6D, 0xB6}.
C3_Endpoints ==
    pc = "enc_done" =>
        /\ (val = 0 => out = <<146, 73, 36>>)
        /\ (val = 255 => out = <<219, 109, 182>>)
C3_Witness == pc = "enc_done" /\ val = 255 /\ out = <<219, 109, 182>>

\* ------------------------------------------------------- claims on SpecApi
\* the 9 bytes of a pixel of the given colour, in wire order green, red, blue
Slot(color) ==
    encode_byte(Green(color)) \o encode_byte(Red(color)) \o encode_byte(Blue(color))
Bytes(f, from, n) == [k \in 1 .. n |-> f[from + k - 1]]
InRange(i) == i >= 0 /\ i < LED_COUNT

\* C4: for every colour 0xRRGGBB and every index i in [0, LED_COUNT),
\* set_pixel(i, colour) leaves bytes 9i..9i+2 = encode(green),
\* 9i+3..9i+5 = encode(red) and 9i+6..9i+8 = encode(blue).
C4_ChannelOrder ==
    (call.op = "set_pixel" /\ InRange(call.index)) =>
        /\ Bytes(heap, 9 * call.index, 3) = encode_byte(Green(call.color))
        /\ Bytes(heap, 9 * call.index + 3, 3) = encode_byte(Red(call.color))
        /\ Bytes(heap, 9 * call.index + 6, 3) = encode_byte(Blue(call.color))
C4_Witness ==
    /\ call.op = "set_pixel" /\ call.index = 1 /\ call.color = 660510
    /\ Bytes(heap, 9, 9) = encode_byte(20) \o encode_byte(10) \o encode_byte(30)
    /\ encode_byte(20) # encode_byte(10)

\* C5: set_pixel(index, colour) with index outside [0, LED_COUNT) leaves every
\* byte of tx_buffer unchanged, writes nothing outside the buffer and returns
\* normally.
C5_OutOfRangeNoOp ==
    (call.op = "set_pixel" /\ ~InRange(call.index)) =>
        /\ heap = call.before
        /\ oob = {}
        /\ pc = "api"
C5_Witness ==
    /\ call.op = "set_pixel" /\ call.index = -1 /\ call.color = 16711680
    /\ Len(trace) = 2 /\ trace[1] = <<"set_pixel", LED_COUNT, 660510>>
    /\ heap = call.before

\* the frame of a strip that is black except for pixel i
BlackFrame == [o \in 0 .. FrameLen - 1 |->
                  IF o < 9 * LED_COUNT THEN black_pattern[(o % 3) + 1] ELSE 0]
OnePixelFrame(i, color) ==
    [o \in 0 .. FrameLen - 1 |->
        IF o < 9 * LED_COUNT
        THEN IF o \div 9 = i THEN Slot(color)[(o % 9) + 1]
             ELSE <<146, 73, 36, 146, 73, 36, 146, 73, 36>>[(o % 9) + 1]
        ELSE 0]

\* C7: on a freshly opened session, setting one pixel i and showing sends a frame
\* that is encoded black for every other pixel, the green/red/blue encodings of
\* the colour at slot i, and zero padding.
C7_FreshSinglePixel ==
    (pc = "api" /\ Len(trace) = 2 /\ trace[1][1] = "set_pixel"
       /\ InRange(trace[1][2]) /\ trace[2] = <<"show">>) =>
        /\ bus.frame = OnePixelFrame(trace[1][2], trace[1][3])
        /\ bus.len = 9 * LED_COUNT + 100
C7_Witness ==
    /\ pc = "api" /\ trace = << <<"set_pixel", 1, 16711680>>, <<"show">> >>
    /\ Bytes(bus.frame, 9, 9) = <<146, 73, 36, 219, 109, 182, 146, 73, 36>>
    /\ Bytes(bus.frame, 0, 9) = <<146, 73, 36, 146, 73, 36, 146, 73, 36>>
    /\ bus.frame[9 * LED_COUNT] = 0

\* C11: when the write inside show() answers -1 or takes fewer bytes than the
\* frame holds, show() reports a transmission failure; the one report show()
\* makes is its perror call.
C11_FailureReported ==
    (pc = "api" /\ call.op = "show" /\ bus.n = call.n + 1
       /\ bus.res \in {"short", "error"}) => bus.perror

\* C12: show() never retries: whatever write() answers, one call of show()
\* issues at most one write and leaves every byte of tx_buffer as it was, so
\* that a show() called right after it sends the same frame again.
C12_NoRetry ==
    (pc = "api" /\ call.op = "show") =>
        /\ bus.n <= call.n + 1
        /\ heap = call.before
        /\ oob = {}
        /\ (Len(trace) >= 2 /\ trace[Len(trace) - 1] = <<"show">>) =>
              bus.frame = call.prev
C12_Witness ==
    /\ pc = "api" /\ Len(trace) = 3 /\ trace[1][1] = "set_pixel"
    /\ trace[2] = <<"show">> /\ trace[3] = <<"show">>
    /\ bus.res = "error" /\ bus.n = call.n + 1
    /\ bus.frame = call.prev /\ bus.frame # BlackFrame

\* the pixel array a caller has in mind after the first k calls of t: black
\* when the session opens and after fill_black, the last colour set otherwise
RECURSIVE AbstractPixels(_, _)
AbstractPixels(t, k) ==
    IF k = 0 THEN [i \in 0 .. LED_COUNT - 1 |-> 0]
    ELSE LET a == AbstractPixels(t, k - 1)
             c == t[k]
         IN  IF c[1] = "fill_black" THEN [i \in 0 .. LED_COUNT - 1 |-> 0]
             ELSE IF c[1] = "set_pixel" /\ InRange(c[2]) THEN [a EXCEPT ![c[2]] = c[3]]
             ELSE a
\* the frame of a pixel array, written from scratch
RECURSIVE SlotsFrom(_, _)
SlotsFrom(a, i) ==
    IF i >= LED_COUNT THEN << >> ELSE Slot(a[i]) \o SlotsFrom(a, i + 1)
Serialize(a) ==
    LET data == SlotsFrom(a, 0)
    IN  [o \in 0 .. FrameLen - 1 |->
            IF o < 9 * LED_COUNT THEN data[o + 1] ELSE 0]

\* C13: after any sequence of fill_black, set_pixel (index in range or not) and
\* show, the frame show() sends is the serialization of the abstract pixel
\* array (last colour set per index since the last fill_black, black by
\* default) followed by zero padding: no stale bytes of earlier calls remain.
C13_FrameRefinesPixels ==
    (pc = "api" /\ Len(trace) >= 1 /\ trace[Len(trace)] = <<"show">>) =>
        bus.frame = Serialize(AbstractPixels(trace, Len(trace)))
C13_Witness ==
    /\ pc = "api"
    /\ trace = << <<"set_pixel", 1, 16711680>>, <<"set_pixel", 1, 660510>>, <<"show">> >>
    /\ Bytes(bus.frame, 9, 9) = Slot(660510)
    /\ Bytes(bus.frame, 0, 9) = Slot(0)
    /\ Slot(660510) # Slot(16711680)

\* C14: set_pixel(i, colour) with i in range changes bytes 9i .. 9i+8 only:
\* every other data byte and every padding byte keep their value, and
\* tx_buffer_len is unchanged.
C14_OnlyOwnSlot ==
    (pc \in {"api", "st_show_on", "st_show_off"}
       /\ call.op = "set_pixel" /\ InRange(call.index)) =>
        /\ DOMAIN heap = DOMAIN call.before
        /\ \A o \in DOMAIN heap :
              (o < 9 * call.index \/ o > 9 * call.index + 8) => heap[o] = call.before[o]
        /\ oob = {}
        /\ tx_buffer_len = FrameLen
C14_Witness ==
    /\ call.op = "set_pixel" /\ call.index = 1 /\ call.color = 660510
    /\ Len(trace) = 2 /\ trace[1] = <<"set_pixel", 0, 16711680>>
    /\ Bytes(heap, 9, 9) # Bytes(call.before, 9, 9)
    /\ Bytes(heap, 0, 9) = Slot(16711680)
    /\ Bytes(heap, 18, 9) = Bytes(call.before, 18, 9)

\* C15: every frame written to the bus, after any sequence of set_pixel,
\* fill_black and show, is zero at every offset from 9 * LED_COUNT on.
C15_PaddingZero ==
    bus.n > 0 =>
        /\ bus.len = 9 * LED_COUNT + RESET_PADDING
        /\ \A o \in 9 * LED_COUNT .. bus.len - 1 : bus.frame[o] = 0
C15_Witness ==
    /\ pc = "api" /\ Len(trace) = 3
    /\ trace[1] = <<"set_pixel", LED_COUNT, 16711680>>
    /\ trace[2] = <<"set_pixel", LED_COUNT - 1, 16711680>>
    /\ trace[3] = <<"show">>
    /\ bus.n = 2 /\ bus.frame[9 * LED_COUNT - 1] # 0
    /\ bus.frame[9 * LED_COUNT] = 0 /\ bus.frame[bus.len - 1] = 0

\* set_pixel(i, color) for every i from i on, as long as the writes stay
\* inside the block
RECURSIVE SetAllPixels(_, _, _)
SetAllPixels(m, i, color) ==
    IF i >= LED_COUNT THEN m
    ELSE LET next == set_pixel(m, i, color)
         IN  IF next.oob = {} THEN SetAllPixels(next, i + 1, color) ELSE next
ZeroBuffer == [o \in 0 .. FrameLen - 1 |-> 0]

\* C19: fill_black leaves the encoded zero pattern 0x92 0x49 0x24 over the data
\* region and zero over the padding: the buffer is byte for byte the one that
\* set_pixel(i, 0x000000) for every i makes of a zero-padded buffer, whatever
\* the buffer held before (the block malloc returned included).
C19_FillBlackIsAllPixelsBlack ==
    (pc = "spi_show" \/ call.op = "fill_black") =>
        /\ heap = SetAllPixels(Mem(ZeroBuffer, {}), 0, 0).bytes
        /\ \A o \in 0 .. 9 * LED_COUNT - 1 : heap[o] = <<146, 73, 36>>[(o % 3) + 1]
        /\ \A o \in 9 * LED_COUNT .. tx_buffer_len - 1 : heap[o] = 0
        /\ oob = {}
C19_Witness ==
    /\ call.op = "fill_black" /\ Len(trace) = 2
    /\ trace[1] = <<"set_pixel", 2, 660510>>
    /\ Bytes(call.before, 18, 9) = Slot(660510)
    /\ Bytes(heap, 18, 9) = encode_byte(0) \o encode_byte(0) \o encode_byte(0)
    /\ heap # call.before

C9_OnlyWhileOpen == misuse = {} /\ frees <= 1

\* C10: each call of show() issues exactly one write, of the whole frame of
\* tx_buffer_len = 9 * LED_COUNT + 100 bytes, a length set by spi_init and
\* never changed.
C10_OneWholeWrite ==
    /\ tx_buffer # "NULL" => tx_buffer_len = 9 * LED_COUNT + 100
    /\ call.op = "show" =>
          /\ bus.n = call.n + 1
          /\ bus.len = 9 * LED_COUNT + 100
          /\ DOMAIN bus.frame = 0 .. (9 * LED_COUNT + 100 - 1)
          /\ bus.frame = call.before
C10_Witness ==
    /\ pc = "loop_read" /\ cmds = 1 /\ call.op = "show" /\ bus.n = 3
    /\ bus.len = 9 * LED_COUNT + 100 /\ bus.frame = heap
    /\ bus.frame # BlackFrame

\* C16: when the write of the blanking frame in cleanup (after the quit key or
\* after SIGINT) fails, teardown still runs to its end: once the process is
\* over, tx_buffer was released once, spi_fd was closed and the process left
\* through exit().
C16_TeardownCompletes ==
    (pc \in {"exited", "crashed"} /\ opened /\ bus.res \in {"short", "error"}) =>
        /\ pc = "exited"
        /\ heap_state = "freed" /\ frees = 1
        /\ fd_state = "closed"

\* C17: when open, one of the three ioctl calls or malloc fails, spi_init
\* returns -1 and the program ends without entering the command loop and
\* without a single write to the bus, also when SIGINT arrives on the way out.
C17_InitFailureNoFrame ==
    /\ (tx_buffer = "NULL" /\ tx_buffer_len # 0) => spi_init_ret = "failed"
    /\ spi_init_ret = "failed" =>
          /\ bus.n = 0 /\ ~opened /\ cmds = 0
          /\ pc \in {"init_failed", "exited", "cl_check", "cl_close", "cl_restore",
                      "cl_exit"}
C17_Witness ==
    /\ pc = "exited" /\ spi_init_ret = "failed" /\ ~handler
    /\ fd_state = "open" /\ tx_buffer = "NULL" /\ tx_buffer_len = FrameLen
    /\ bus = NoBus

\* C24: the settings cleanup applies to the terminal on the way out are the
\* ones tcgetattr captured: whenever SIGINT arrives during startup, restore
\* never applies settings that were never saved, and once raw mode was set
\* every exit leaves the terminal with the saved settings.
C24_RestoresSavedSettings ==
    /\ term # "zero"
    /\ (pc = "exited" /\ atexit_reg) => term = "orig"

\* ----------------------------------------------------- claims on SpecKeys
LastKey == trace[Len(trace)]
Min2(a, b) == IF a < b THEN a ELSE b
Max2(a, b) == IF a > b THEN a ELSE b

\* C22: after any sequence of keys current_led_index is within
\* [0, LED_COUNT): 'next' from LED_COUNT-1 gives 0, 'previous' from 0 gives
\* LED_COUNT-1, and 'next' followed by 'previous' gives the index back.
C22_IndexWraps ==
    /\ current_led_index \in 0 .. LED_COUNT - 1
    /\ (pc = "loop_read" /\ Len(trace) >= 1) =>
          /\ LastKey[1] = "a" =>
                current_led_index
                    = (IF LastKey[2] = LED_COUNT - 1 THEN 0 ELSE LastKey[2] + 1)
          /\ LastKey[1] = "s" =>
                current_led_index
                    = (IF LastKey[2] = 0 THEN LED_COUNT - 1 ELSE LastKey[2] - 1)
          /\ LastKey[1] \notin {"a", "s"} => current_led_index = LastKey[2]
    /\ (pc = "loop_read" /\ Len(trace) >= 2 /\ trace[Len(trace) - 1][1] = "a"
          /\ LastKey[1] = "s") =>
          current_led_index = trace[Len(trace) - 1][2]
C22_Witness ==
    /\ pc = "loop_read" /\ Len(trace) = 3
    /\ trace[1][1] = "s" /\ trace[1][2] = 0
    /\ trace[2][1] = "a" /\ trace[2][2] = LED_COUNT - 1
    /\ trace[3][1] = "s" /\ trace[3][2] = 0
    /\ current_led_index = LED_COUNT - 1

\* C23: the colour shifts e, r, t saturate: the raised channel becomes
\* min(255, c + COLOR_STEP), the two lowered ones max(0, c - COLOR_STEP / 2),
\* with no wrap-around; after any sequence of keys every channel is within
\* 0..255 and current_color has no bit above bit 23.
C23_ShiftSaturates ==
    /\ current_color \in 0 .. 16777215
    /\ current_color
          = 65536 * Red(current_color) + 256 * Green(current_color)
            + Blue(current_color)
    /\ (pc = "loop_read" /\ Len(trace) >= 1 /\ LastKey[1] \in {"e", "r", "t"}) =>
          LET up(c) == Min2(255, c + COLOR_STEP)
              down(c) == Max2(0, c - COLOR_STEP \div 2)
              r0 == Red(LastKey[3])
              g0 == Green(LastKey[3])
              b0 == Blue(LastKey[3])
          IN  /\ Red(current_color) = IF LastKey[1] = "e" THEN up(r0) ELSE down(r0)
              /\ Green(current_color) = IF LastKey[1] = "r" THEN up(g0) ELSE down(g0)
              /\ Blue(current_color) = IF LastKey[1] = "t" THEN up(b0) ELSE down(b0)
C23_Witness ==
    /\ pc = "loop_read" /\ Len(trace) = 2
    /\ trace[1] = <<"e", 0, 197379>> /\ trace[2] = <<"t", 0, 1245184>>
    /\ Red(current_color) = 11 /\ Green(current_color) = 0
    /\ Blue(current_color) = 16
    /\ cmds = 9

\* ----------------------------------------------------- claims on SpecPoll
\* the byte of the successful read before the latest one; 0xFF when there is none
PreviousRead == IF Len(trace) > 1 THEN trace[Len(trace) - 1] ELSE 255

\* C25: a turn of the polling loop whose read succeeds prints a press for pin i
\* exactly when pin i is 0 in that read and was 1 in the successful read before
\* it (all pins 1 before the first); a turn whose read fails prints nothing and
\* leaves lastState as it was.
C25_PressOnFallingEdge ==
    call.op = "poll" =>
        /\ call.ret = "ok" =>
              /\ printed = {i \in 0 .. 7 :
                               /\ Shr(trace[Len(trace)], i) % 2 = 0
                               /\ Shr(PreviousRead, i) % 2 = 1}
              /\ lastState = trace[Len(trace)]
        /\ call.ret = "failed" =>
              /\ printed = {}
              /\ lastState = call.lastState

\* button 0 is pressed, held over the next read, and button 1 joins it: the
\* third turn reports button 1 only
C25_Witness ==
    /\ call.op = "poll" /\ call.ret = "ok"
    /\ trace = <<254, 254, 252>>
    /\ printed = {1}

\* ------------------------------------------------------ claims on SpecIrq
\* positions in trace of the interrupts accepted before the latest entry
AcceptedBefore ==
    {k \in 1 .. Len(trace) - 1 : trace[k].ret \in {"ok", "failed"}}

\* positions in trace of the successful port reads
GoodReads == {k \in 1 .. Len(trace) : trace[k].ret \in {"ok", "initial"}}

SetMax(S) == CHOOSE x \in S : \A y \in S : y <= x

\* the latest interrupt came less than window ms after the last accepted one
WithinWindow(window) ==
    /\ AcceptedBefore # {}
    /\ trace[Len(trace)].at - trace[SetMax(AcceptedBefore)].at < window

Debounced(window) ==
    call.op = "on_interrupt" =>
        /\ WithinWindow(window) =>
              /\ call.ret = "ignored" /\ ~call.i2c /\ printed = {}
              /\ last_state = call.last_state
              /\ last_interrupt_time = call.last_interrupt_time
        /\ call.ret = "failed" => last_state = call.last_state
        /\ GoodReads # {} => last_state = trace[SetMax(GoodReads)].data

\* C26 (as stated): an interrupt less than 50 ms after the last accepted one
\* is ignored: no I2C read, no press, last_state and last_interrupt_time
\* unchanged; a failed read leaves last_state unchanged; otherwise last_state
\* holds the most recent successfully read port values.
C26_Debounce50ms == Debounced(50)

\* C26 (amended): the same with the window of the program that runs: 50 ms in
\* read_buttons_lgpio_full.c and part_001, 20 ms in part_000.
C26_DebounceWindow == Debounced(IF program = "part_000" THEN 20 ELSE 50)

\* part_000 accepts an interrupt that reports button 0, ignores the next one
\* 10 ms later and accepts the one 40 ms after the first, which reports button 1
C26_Witness ==
    /\ program = "part_000" /\ Len(trace) = 3
    /\ trace[1].ret = "ok" /\ trace[1].data = <<254, 255>>
    /\ trace[2].ret = "ignored" /\ trace[2].at = trace[1].at + 10
    /\ trace[3].ret = "ok" /\ trace[3].at = trace[1].at + 40
    /\ call.ret = "ok" /\ call.last_state = <<254, 255>>
    /\ call.last_interrupt_time = trace[1].at
    /\ last_state = <<252, 254>> /\ printed = {1}

\* --------------------------------------------------- claims on SpecBuzzer
\* C27: in the demo programs the assertion of set_volume holds for every
\* argument: the residual after the weights 4 and 2 is 0 or 1, and the process
\* is not aborted.
C27_DemoAssertionHolds ==
    (program \in DemoPrograms /\ call.op = "set_volume") =>
        /\ call.temp_volume \in {0, 1}
        /\ ~aborted

\* C28: in the interactive buzzer pins 1 and 0 are never both high: set_volume
\* clamps to [0, 8] (the levels it writes, weighted 4, 2, 2, 1, add up to the
\* clamped argument), its residual is 0, 1 or 2 so that the assertion holds,
\* and it never raises both pins; in the single-pin variant v1 and v0 are
\* never both true.
C28_Pin1Pin0Exclusive ==
    program \in {"part_003", SinglePins} =>
        /\ ~(gpio[1] = 1 /\ gpio[0] = 1)
        /\ ~aborted
        /\ ~(vbit[1] /\ vbit[0])
        /\ call.op = "set_volume" =>
              /\ call.temp_volume \in 0 .. 2
              /\ 4 * gpio[3] + 2 * gpio[2] + 2 * gpio[1] + gpio[0]
                    = IF call.volume > 8 THEN 8
                      ELSE IF call.volume < 0 THEN 0 ELSE call.volume

\* eight presses of up from volume 1 stop at 8: pins 3, 2 and 1 high, pin 0 low
C28_Witness ==
    /\ program = "part_003" /\ pc = "buzzer_loop"
    /\ current_vol = 8 /\ call.op = "set_volume" /\ call.key = "UP"
    /\ call.volume = 8 /\ call.temp_volume = 2
    /\ gpio[1] = 1 /\ gpio[0] = 0

\* C29: after any sequence of left and right keys from 440 Hz current_freq is
\* within [100, 2000], and current_vol is within [MIN_VOLUME, MAX_VOLUME].
C29_FreqAndVolInRange ==
    (program \in {"part_003", SinglePins} /\ pc \in {"buzzer_loop", "exited"}) =>
        /\ current_freq >= 100 /\ current_freq <= 2000
        /\ current_vol >= 0 /\ current_vol <= 8

\* --------------------------------------------------- claims on SpecStep50
\* C20: in the 50-LED test, set_pixel(i, colour) leaves in bytes 9i+6 .. 9i+8
\* the encoding of the blue channel of the colour, for every colour;
\* set_pixel(i, 0xFFFFFF) leaves 0xDB 0x6D 0xB6 three times in slot i.
C20_BlueChannelEncoded ==
    (call.op = "set_pixel" /\ InRange(call.index)) =>
        /\ Bytes(heap, 9 * call.index + 6, 3) = encode_byte(Blue(call.color))
        /\ call.color = 16777215 =>
              Bytes(heap, 9 * call.index, 9)
                  = <<219, 109, 182, 219, 109, 182, 219, 109, 182>>

\* C21: in the step-through tests, whose set_pixel only checks
\* index >= LED_COUNT, set_pixel with a negative index is a no-op: tx_buffer
\* is unchanged and no byte is written outside the buffer.
C21_NegativeIndexNoOp ==
    (call.op = "set_pixel" /\ call.index < 0) =>
        /\ heap = call.before
        /\ oob = {}

\* ------------------------------------------------------ claims on SpecStep
\* the LEDs a frame gives a colour other than black: some data bit of one of
\* the three channels of their slot is set
LitLeds(f) ==
    {k \in 0 .. LED_COUNT - 1 :
        \E c \in 0 .. 2 : Decode(Bytes(f, 9 * k + 3 * c, 3)) # 0}

\* C18: the step-through test lights one LED at a time: in every frame it
\* writes, from the first clear() to the frame cleanup sends (on SIGINT too),
\* at most one LED has a colour other than black.
C18_OneLedAtATime ==
    bus.n > 0 => Cardinality(LitLeds(bus.frame)) <= 1
C18_Witness ==
    /\ pc = "st_wait" /\ step_i = LED_COUNT - 1 /\ bus.n = 2 * LED_COUNT
    /\ LitLeds(bus.frame) = {LED_COUNT - 1}
    /\ Bytes(bus.frame, 9 * (LED_COUNT - 1), 9) = Slot(16777215)

\* C6: after clear() the frame that was sent holds, for every pixel, the 9
\* bytes of the encoded all-zero pattern (0x92, 0x49, 0x24 three times), and
\* every byte of the padding is zero.
C6_ClearSendsBlack ==
    call.op = "clear" =>
        /\ \A i \in 0 .. LED_COUNT - 1 :
              Bytes(bus.frame, 9 * i, 9) = <<146, 73, 36, 146, 73, 36, 146, 73, 36>>
        /\ \A o \in 9 * LED_COUNT .. bus.len - 1 : bus.frame[o] = 0

====
